---------------------------- MODULE Spec2Model ----------------------------
(***************************************************************************)
(* A model of the flask todo application (src/app.py): one table of Todo   *)
(* rows in a SQLite database and five routes that list, create, toggle and *)
(* delete rows.                                                            *)
(*                                                                         *)
(* Spec     : every request is handled whole, one after the other.         *)
(* SpecConc : update and delete requests are handled by concurrent         *)
(*            workers: an update does its read (line 38), its negation     *)
(*            (line 39) and its commit (line 40) as separate steps, a      *)
(*            delete its read (line 45) and its commit (lines 46-47).      *)
(***************************************************************************)
EXTENDS Integers, FiniteSets, Sequences, TLC

VARIABLES
    store,      \* the rows of table todo (db.sqlite)
    serial,     \* history: how many rows were ever inserted
    deleted,    \* history: the ids of the rows deleted so far
    request,    \* the request handled last
    response,   \* the answer to it
    before,     \* history: the store as it was before that request
    prior,      \* history: request, response and before of the request before it
    pc,         \* SpecConc: each worker's position in update() or delete()
    arg,        \* SpecConc: the id each worker's handler was called with
    todo,       \* SpecConc: the object each worker's session loaded at line
                \* 38 or 45
    reply,      \* SpecConc: the status each worker answered last
    seqStore    \* history (SpecConc): the store had every committed update
                \* toggled the row as it was at the commit

histVars == <<request, before, prior>>
concVars == <<pc, arg, todo, reply, seqStore>>
vars == <<store, serial, deleted, request, response, before, prior,
          pc, arg, todo, reply, seqStore>>

----------------------------------------------------------------------------
(* Bounds *)

MaxCreates == 3     \* rows inserted in one behaviour
NumWorkers == 2     \* concurrent requests
MaxConcCreates == 2 \* rows inserted in one behaviour of SpecConc

Workers == 1..NumWorkers
Ids == 1..(MaxCreates + 1)                  \* ids a client may ask for
TitleStrings == {"", "Buy milk"}            \* titles a client may send

----------------------------------------------------------------------------
(* Python / SQL values *)

\* Python None, SQL NULL
None == [null |-> TRUE]

\* a value that is not None
Some(v) == [null |-> FALSE, val |-> v]

\* the forms a POST /todos/create may carry: with or without the field title
NoForm == [k \in {} |-> ""]
Forms == {NoForm} \cup {[title |-> t] : t \in TitleStrings}

\* FormGet reading a field the form never carries
FormGetWrongField(form) == IF "name" \in DOMAIN form THEN Some(form["name"]) ELSE None

\* request.form.get("title"): the field, or None when it is missing (line 30)
FormGet(form) == IF "title" \in DOMAIN form THEN Some(form["title"]) ELSE None

\* PyNot setting the flag instead of negating it
PySetTrue(c) == Some(TRUE)

\* Python's `not x` (line 39): None is falsy
PyNot(c) == IF c.null THEN Some(TRUE) ELSE Some(~c.val)

----------------------------------------------------------------------------
(* The table *)

\* Todo built without its completed argument: the column stays NULL
TodoNoCompleted(id, title, completed, born) ==
    [id |-> id, title |-> title, completed |-> None, born |-> born]

\* Todo(title=..., completed=...) once inserted with primary key id (lines
\* 11-14, 31); born is history: the number of the insert that made the row
Todo(id, title, completed, born) ==
    [id |-> id, title |-> title, completed |-> completed, born |-> born]

\* the column values of a row, as a template or a client sees them
Columns(r) == [id |-> r.id, title |-> r.title, completed |-> r.completed]

StoredIds(s) == {r.id : r \in s}

MaxOf(S) == CHOOSE m \in S : \A n \in S : n <= m

\* NextId counting the rows instead of taking the largest id
NextIdByCount(s) == Cardinality(s) + 1

\* the primary key SQLite gives an inserted row: id is INTEGER PRIMARY KEY
\* without AUTOINCREMENT (line 12), so it is the rowid, one more than the
\* largest rowid now in the table, or 1 in an empty table
NextId(s) == IF s = {} THEN 1 ELSE MaxOf(StoredIds(s)) + 1

\* QueryAll filtered to the todos that are not completed
QueryOpen(s) == {r \in s : r.completed # Some(TRUE)}

\* Todo.query.all() (line 25)
QueryAll(s) == s

\* Todo.query.filter_by(id=id).first() (lines 38, 45): the row, or None
QueryFirst(s, id) ==
    IF \E r \in s : r.id = id
    THEN Some(CHOOSE r \in s : r.id = id)
    ELSE None

\* db.session.add(new_todo); db.session.commit() (lines 32-33)
Insert(s, title, completed, born) ==
    s \cup {Todo(NextId(s), title, completed, born)}

\* SetCompleted without its WHERE clause
SetCompletedAll(s, id, c) == {[r EXCEPT !.completed = c] : r \in s}

\* UPDATE todo SET completed = c WHERE id = id, the flush of line 40
SetCompleted(s, id, c) ==
    {IF r.id = id THEN [r EXCEPT !.completed = c] ELSE r : r \in s}

\* DeleteRow without its WHERE clause
DeleteAllRows(s, id) == {}

\* DELETE FROM todo WHERE id = id, the flush of line 47
DeleteRow(s, id) == {r \in s : r.id # id}

----------------------------------------------------------------------------
(* Requests and responses *)

Req(op, id, form) == [op |-> op, id |-> id, form |-> form]

\* 200 with a text body (line 21)
Text(body) == [status |-> 200, location |-> "", body |-> body, todos |-> {}]

\* render_template("base.html", todos=todos) (line 26)
Rendered(todos) ==
    [status |-> 200, location |-> "", body |-> "", todos |-> {Columns(r) : r \in todos}]

\* redirect(url_for("get_tasks")) (lines 34, 41, 48)
Redirect == [status |-> 302, location |-> "/todos", body |-> "", todos |-> {}]

\* an exception no handler catches: flask answers 500
ServerError == [status |-> 500, location |-> "", body |-> "", todos |-> {}]

NoRequest == Req("none", 0, NoForm)
NoResponse == [status |-> 0, location |-> "", body |-> "", todos |-> {}]
NoPrior == [request |-> NoRequest, response |-> NoResponse, before |-> {}]

\* history of a request handled whole: what it was and the store before it
Logged(req) ==
    /\ request' = req
    /\ before' = store
    /\ prior' = [request |-> request, response |-> response, before |-> before]

----------------------------------------------------------------------------
(* The routes, each request handled whole *)

\* GET / (lines 19-21)
say_hello ==
    /\ response' = Text("Hello, World!")
    /\ UNCHANGED <<store, serial, deleted>>

\* GET /todos (lines 23-26)
get_tasks ==
    /\ response' = Rendered(QueryAll(store))
    /\ UNCHANGED <<store, serial, deleted>>

\* POST /todos/create (lines 28-34)
create(form) ==
    /\ serial < MaxCreates
    /\ LET title == FormGet(form)
       IN  store' = Insert(store, title, Some(FALSE), serial + 1)
    /\ serial' = serial + 1
    /\ response' = Redirect
    /\ UNCHANGED deleted

\* GET /todos/update/<id> (lines 36-41): line 39 raises AttributeError on None
update(id) ==
    LET found == QueryFirst(store, id)
    IN  IF found.null
        THEN /\ response' = ServerError
             /\ UNCHANGED <<store, serial, deleted>>
        ELSE /\ store' = SetCompleted(store, id, PyNot(found.val.completed))
             /\ response' = Redirect
             /\ UNCHANGED <<serial, deleted>>

\* delete answering a missing id with the redirect, as if it had been removed
delete_ignore_missing(id) ==
    /\ store' = {r \in store : r.id # id}
    /\ deleted' = IF \E r \in store : r.id = id THEN deleted \cup {id} ELSE deleted
    /\ response' = [status |-> 302, location |-> "/todos", body |-> "", todos |-> {}]
    /\ UNCHANGED serial

\* GET /todos/delete/<id> (lines 43-48): line 46 raises UnmappedInstanceError
\* on None
delete(id) ==
    LET found == QueryFirst(store, id)
    IN  IF found.null
        THEN /\ response' = ServerError
             /\ UNCHANGED <<store, serial, deleted>>
        ELSE /\ store' = DeleteRow(store, id)
             /\ deleted' = deleted \cup {id}
             /\ response' = Redirect
             /\ UNCHANGED serial

\* db.create_all() on a new database (line 51): an empty table
Init ==
    /\ store = {}
    /\ serial = 0
    /\ deleted = {}
    /\ request = NoRequest
    /\ response = NoResponse
    /\ before = {}
    /\ prior = NoPrior
    /\ pc = [w \in Workers |-> "idle"]
    /\ arg = [w \in Workers |-> 0]
    /\ todo = [w \in Workers |-> None]
    /\ reply = [w \in Workers |-> 0]
    /\ seqStore = {}

Next ==
    \/ say_hello /\ Logged(Req("say_hello", 0, NoForm)) /\ UNCHANGED concVars
    \/ get_tasks /\ Logged(Req("get_tasks", 0, NoForm)) /\ UNCHANGED concVars
    \/ \E form \in Forms :
          create(form) /\ Logged(Req("create", 0, form)) /\ UNCHANGED concVars
    \/ \E id \in Ids :
          update(id) /\ Logged(Req("update", id, NoForm)) /\ UNCHANGED concVars
    \/ \E id \in Ids :
          delete(id) /\ Logged(Req("delete", id, NoForm)) /\ UNCHANGED concVars

Spec == Init /\ [][Next]_vars

----------------------------------------------------------------------------
(* update() and delete() handled by concurrent workers *)

\* line 38: the worker's session loads the row, or None
update_read(w, id) ==
    /\ pc[w] = "idle"
    /\ arg' = [arg EXCEPT ![w] = id]
    /\ todo' = [todo EXCEPT ![w] = QueryFirst(store, id)]
    /\ pc' = [pc EXCEPT ![w] = "negate"]
    /\ UNCHANGED <<store, serial, deleted, response, histVars, reply, seqStore>>

\* line 39: the loaded object's flag is negated in the session; on None the
\* AttributeError ends the request
update_negate(w) ==
    /\ pc[w] = "negate"
    /\ IF todo[w].null
       THEN /\ reply' = [reply EXCEPT ![w] = ServerError.status]
            /\ pc' = [pc EXCEPT ![w] = "idle"]
            /\ arg' = [arg EXCEPT ![w] = 0]
            /\ UNCHANGED todo
       ELSE /\ todo' = [todo EXCEPT ![w] =
                          Some([@.val EXCEPT !.completed = PyNot(@)])]
            /\ pc' = [pc EXCEPT ![w] = "commit"]
            /\ UNCHANGED <<reply, arg>>
    /\ UNCHANGED <<store, serial, deleted, response, histVars, seqStore>>

\* line 40: the flush writes the session's flag to the row with that id, and
\* fails (StaleDataError) when no row has it any more
update_commit(w) ==
    /\ pc[w] = "commit"
    /\ LET now == QueryFirst(store, arg[w])
       IN  IF now.null
           THEN /\ reply' = [reply EXCEPT ![w] = ServerError.status]
                /\ UNCHANGED <<store, seqStore>>
           ELSE /\ store' = SetCompleted(store, arg[w], todo[w].val.completed)
                /\ seqStore' = SetCompleted(seqStore, arg[w],
                                   PyNot(QueryFirst(seqStore, arg[w]).val.completed))
                /\ reply' = [reply EXCEPT ![w] = Redirect.status]
    /\ pc' = [pc EXCEPT ![w] = "idle"]
    /\ todo' = [todo EXCEPT ![w] = None]
    /\ arg' = [arg EXCEPT ![w] = 0]
    /\ UNCHANGED <<serial, deleted, response, histVars>>

\* line 45: the worker's session loads the row, or None
delete_read(w, id) ==
    /\ pc[w] = "idle"
    /\ arg' = [arg EXCEPT ![w] = id]
    /\ todo' = [todo EXCEPT ![w] = QueryFirst(store, id)]
    /\ pc' = [pc EXCEPT ![w] = "delete"]
    /\ UNCHANGED <<store, serial, deleted, response, histVars, reply, seqStore>>

\* lines 46-48: on None, line 46 raises UnmappedInstanceError; otherwise the
\* flush deletes the row with that id and the request is answered with the
\* redirect, also when no row has the id any more (SQLAlchemy only warns)
delete_commit(w) ==
    /\ pc[w] = "delete"
    /\ IF todo[w].null
       THEN /\ reply' = [reply EXCEPT ![w] = ServerError.status]
            /\ UNCHANGED <<store, deleted, seqStore>>
       ELSE /\ store' = DeleteRow(store, arg[w])
            /\ seqStore' = DeleteRow(seqStore, arg[w])
            /\ deleted' = IF arg[w] \in StoredIds(store)
                          THEN deleted \cup {arg[w]} ELSE deleted
            /\ reply' = [reply EXCEPT ![w] = Redirect.status]
    /\ pc' = [pc EXCEPT ![w] = "idle"]
    /\ todo' = [todo EXCEPT ![w] = None]
    /\ arg' = [arg EXCEPT ![w] = 0]
    /\ UNCHANGED <<serial, response, histVars>>

NextConc ==
    \/ \E form \in Forms :
          /\ serial < MaxConcCreates
          /\ create(form)
          /\ seqStore' = Insert(seqStore, FormGet(form), Some(FALSE), serial + 1)
          /\ UNCHANGED <<histVars, pc, arg, todo, reply>>
    \/ \E w \in Workers, id \in Ids : update_read(w, id)
    \/ \E w \in Workers : update_negate(w)
    \/ \E w \in Workers : update_commit(w)
    \/ \E w \in Workers, id \in Ids : delete_read(w, id)
    \/ \E w \in Workers : delete_commit(w)

SpecConc == Init /\ [][NextConc]_vars

----------------------------------------------------------------------------
(* Properties *)

IsString(t) == (~t.null) /\ t.val \in STRING

IsBool(c) == (~c.null) /\ c.val \in BOOLEAN

\* the rows of `after` that are not rows of `pre`
Added(pre, after) == after \ pre

\* the last request was handled and answered with a redirect to the list view
Redirected == response.status = 302 /\ response.location = "/todos"

\* C1: no create is ever given an id that a deleted todo had: after a create,
\* the id of the row it added is none of the ids deleted before it.
C1_DeletedIdNeverReused ==
    request.op = "create" =>
        \A r \in Added(before, store) : r.id \notin deleted

\* C2: a create with form field title = t adds exactly one row, with an id no
\* stored row had, title t and completed false, keeps every row that was
\* there, and answers with a redirect to the list view; a list right after a
\* create into an empty store shows exactly that one row.
C2_CreateAddsOne ==
    /\ (request.op = "create" /\ "title" \in DOMAIN request.form) =>
          /\ before \subseteq store
          /\ Cardinality(Added(before, store)) = 1
          /\ \A r \in Added(before, store) :
                /\ r.id \notin StoredIds(before)
                /\ r.title = Some(request.form["title"])
                /\ r.completed = Some(FALSE)
          /\ Redirected
    /\ (/\ request.op = "get_tasks"
        /\ prior.request.op = "create"
        /\ "title" \in DOMAIN prior.request.form
        /\ prior.before = {}) =>
          /\ Cardinality(response.todos) = 1
          /\ \A t \in response.todos :
                /\ t.title = Some(prior.request.form["title"])
                /\ t.completed = Some(FALSE)

C2_Witness ==
    /\ request.op = "create"
    /\ request.form = [title |-> "Buy milk"]
    /\ before # {}
    /\ store # before

\* C3: a delete of a stored id removes exactly the row with that id and no
\* other and answers with a redirect to the list view; and no request other
\* than a create brings an id into the store, so the id stays out of every
\* list until a later create.
C3_DeleteRemovesOne ==
    /\ [](  (request.op = "delete" /\ request.id \in StoredIds(before)) =>
              /\ store \subseteq before
              /\ \A r \in before : (r \in store) <=> (r.id # request.id)
              /\ Cardinality(before \ store) = 1
              /\ Redirected )
    /\ [][ request'.op # "create" =>
              /\ StoredIds(store') \subseteq StoredIds(store)
              /\ (request'.op = "get_tasks" =>
                     {t.id : t \in response'.todos} \subseteq StoredIds(store)) ]_vars

C3_Witness ==
    /\ request.op = "get_tasks"
    /\ prior.request.op = "delete"
    /\ prior.request.id \in StoredIds(prior.before)
    /\ Cardinality(prior.before) >= 2
    /\ response.todos # {}

\* C4: two updates of the same stored id, one right after the other, bring
\* the row's completed flag and the whole store back to what they were before
\* the first.
C4_DoubleToggle ==
    (/\ request.op = "update"
     /\ prior.request.op = "update"
     /\ prior.request.id = request.id
     /\ request.id \in StoredIds(prior.before)) =>
        /\ store = prior.before
        /\ QueryFirst(store, request.id).val.completed =
              QueryFirst(prior.before, request.id).val.completed
        /\ before # store

C4_Witness ==
    /\ request.op = "update"
    /\ prior.request.op = "update"
    /\ prior.request.id = request.id
    /\ request.id \in StoredIds(prior.before)
    /\ Cardinality(store) >= 2
    /\ \E r \in store : r.completed = Some(TRUE)

\* C5: an update or a delete of an id that is not stored is answered with a
\* server error, not a redirect, and leaves the store as it was.
C5_MissingIdFails ==
    (request.op \in {"update", "delete"} /\ request.id \notin StoredIds(before)) =>
        /\ response.status = 500
        /\ ~Redirected
        /\ store = before

C5_Witness ==
    /\ request.op = "delete"
    /\ request.id \notin StoredIds(before)
    /\ before # {}
    /\ prior.request.op = "update"
    /\ prior.request.id \notin StoredIds(prior.before)

\* C6 as stated: every stored todo has a title that is a string, the empty
\* string when the create carried no title field, and a completed value that
\* is true or false.
C6_TitleAlwaysString ==
    /\ \A r \in store : IsString(r.title) /\ IsBool(r.completed)
    /\ (request.op = "create" /\ "title" \notin DOMAIN request.form) =>
          \A r \in Added(before, store) : r.title = Some("")

\* C6 as amended: every stored todo has a title that is a string or None,
\* None (and not the empty string) when the create carried no title field,
\* and a completed value that is true or false.
C6_TitleStringOrNone ==
    /\ \A r \in store :
          /\ r.title = None \/ IsString(r.title)
          /\ IsBool(r.completed)
    /\ (request.op = "create" /\ "title" \notin DOMAIN request.form) =>
          \A r \in Added(before, store) : r.title = None

C6_Witness ==
    /\ \E r \in store : r.title = None /\ r.completed = Some(TRUE)
    /\ \E r \in store : r.title = Some("")
    /\ request.op = "create"
    /\ "title" \notin DOMAIN request.form

\* C7: the ids of the stored todos are pairwise distinct, and a todo keeps
\* the id its create gave it for as long as it is stored, whatever requests
\* are handled.
C7_IdsDistinctAndFixed ==
    /\ [](\A r, q \in store : r.id = q.id => r = q)
    /\ [][\A r \in store, q \in store' : r.born = q.born => r.id = q.id]_vars

C7_Witness ==
    /\ Cardinality(store) >= 2
    /\ deleted # {}
    /\ request.op = "update"
    /\ Redirected
    /\ prior.request.op = "create"

\* C8: a list request answers 200 with exactly the stored todos, each with
\* its id, title and completed flag, none left out and none added, the empty
\* collection for an empty store, and leaves the store unchanged.
C8_ListShowsStore ==
    request.op = "get_tasks" =>
        /\ response.status = 200
        /\ response.todos = {Columns(r) : r \in before}
        /\ Cardinality(response.todos) = Cardinality(before)
        /\ (before = {} => response.todos = {})
        /\ store = before

C8_Witness ==
    /\ request.op = "get_tasks"
    /\ Cardinality(store) >= 2
    /\ \E r \in store : r.completed = Some(TRUE)
    /\ \E r \in store : r.completed = Some(FALSE)

\* C9: an update of a stored id changes the completed flag of the row with
\* that id to its negation and nothing else: that row's id and title, every
\* other row and the set of stored ids are as before.
C9_UpdateFrame ==
    (request.op = "update" /\ request.id \in StoredIds(before)) =>
        /\ StoredIds(store) = StoredIds(before)
        /\ Cardinality(store) = Cardinality(before)
        /\ \A r \in before :
              IF r.id = request.id
              THEN \E q \in store :
                      /\ q.id = r.id /\ q.title = r.title /\ q.born = r.born
                      /\ q.completed.val = ~r.completed.val
              ELSE r \in store

C9_Witness ==
    /\ request.op = "update"
    /\ request.id \in StoredIds(before)
    /\ \E r \in store : r.id = request.id /\ r.completed = Some(FALSE)
    /\ \E r \in store : r.id # request.id /\ r.completed = Some(TRUE)

\* C10: concurrent updates of the same todo all take effect: once no update
\* is in progress, every row's completed flag is what it would be had the
\* committed updates toggled it one after the other.
C10_NoLostUpdate ==
    (\A w \in Workers : pc[w] = "idle") =>
        \A r \in store :
            \E q \in seqStore : q.id = r.id /\ q.completed = r.completed

=============================================================================
